---- MODULE Spec2Model ----
(***************************************************************************)
(* Model of src/engine.ts: the three scan entry points analyzeText,        *)
(* analyzeLink and analyzeForensics, the PLATFORM_TEMPLATES registry and   *)
(* the remote model call each of them awaits.                              *)
(*                                                                         *)
(* JavaScript values are records tagged by t: undefined, null, boolean,    *)
(* number, string, array, object.  A string whose characters the code      *)
(* inspects (text.trim(), the manipulation-tool pattern) is a sequence of  *)
(* one-character strings; a template literal is its fixed text with its    *)
(* interpolated parts kept as fields.  Only integer numbers occur.         *)
(***************************************************************************)
EXTENDS Integers, Sequences, FiniteSets, TLC

VARIABLES pc, entry, args, locals, response, outcome

vars == <<pc, entry, args, locals, response, outcome>>

-----------------------------------------------------------------------------
(* Bounds of the model. *)

\* longest reasons list a gateway reply carries
MaxReasons == 2

-----------------------------------------------------------------------------
(* JavaScript values. *)

Undefined == [t |-> "undefined"]
Null == [t |-> "null"]
Bool(b) == [t |-> "boolean", b |-> b]
Num(n) == [t |-> "number", n |-> n]
Str(s) == [t |-> "string", s |-> s]
CharStr(cs) == [t |-> "string", chars |-> cs]
Arr(items) == [t |-> "array", items |-> items]
Obj(fields) == [t |-> "object", fields |-> fields]
EmptyObject == Obj(<<>>)

\* ToBoolean: what `if (v)`, `v || d` and `a && b` test
Truthy(v) ==
  CASE v.t = "undefined" -> FALSE
    [] v.t = "null" -> FALSE
    [] v.t = "boolean" -> v.b
    [] v.t = "number" -> v.n # 0
    [] v.t = "string" -> IF "chars" \in DOMAIN v THEN v.chars # <<>> ELSE v.s # ""
    [] OTHER -> TRUE

\* v || d
OrElse(v, d) == IF Truthy(v) THEN v ELSE d

\* obj.name on an object: an own field, else undefined
Get(obj, name) == IF name \in DOMAIN obj.fields THEN obj.fields[name] ELSE Undefined

\* obj.name throws a TypeError when obj is null or undefined
CanRead(obj) == obj.t \notin {"undefined", "null"}

\* ...v in a call's arguments throws unless v is iterable (arrays here)
Iterable(v) == v.t = "array"

Min(a, b) == IF a < b THEN a ELSE b
Max(a, b) == IF a > b THEN a ELSE b

\* Math.max(score, x) for a number score and x a number value
MathMax(score, x) == Max(score, x.n)

\* Math.min(score, 100)
MathMin100(score) == Min(score, 100)

RECURSIVE Dedup(_, _)
\* [...new Set(reasons)]: first occurrences, in insertion order
Dedup(seq, seen) ==
  IF seq = <<>> THEN <<>>
  ELSE IF Head(seq) \in seen THEN Dedup(Tail(seq), seen)
       ELSE <<Head(seq)>> \o Dedup(Tail(seq), seen \cup {Head(seq)})

SetSpread(seq) == Dedup(seq, {})

Range(seq) == { seq[i] : i \in 1..Len(seq) }

-----------------------------------------------------------------------------
(* The remote model call: ai.models.generateContent and JSON.parse. *)

\* response.text: absent, a string that is no JSON document, or a document
NoText == Undefined
Garbage == [t |-> "string", json |-> FALSE]
Json(v) == [t |-> "string", json |-> TRUE, doc |-> v]

\* response.text || '{}'
TextOrEmptyObject(text) == IF text.t = "undefined" THEN Json(EmptyObject) ELSE text

\* JSON.parse: throws a SyntaxError on anything that is no JSON document
JSONparse(text) ==
  IF text.json THEN [threw |-> FALSE, value |-> text.doc]
  ELSE [threw |-> TRUE, value |-> Undefined]

Pending == [kind |-> "pending", text |-> NoText]
Rejected == [kind |-> "rejected", text |-> NoText]
Fulfilled(text) == [kind |-> "fulfilled", text |-> text]

-----------------------------------------------------------------------------
(* Results of a call. *)

NoOutcome == [kind |-> "none", path |-> "none"]
Threw == [kind |-> "threw", path |-> "throw"]
\* a value returned, with the return statement that produced it
Returned(r) == [kind |-> "returned", path |-> r.path, value |-> r.result]
At(path, result) == [path |-> path, result |-> result]

-----------------------------------------------------------------------------
(* analyzeText *)

Whitespace == {" ", "\t", "\n"}

RECURSIVE TrimStart(_)
TrimStart(cs) ==
  IF cs # <<>> /\ Head(cs) \in Whitespace THEN TrimStart(Tail(cs)) ELSE cs

RECURSIVE TrimEnd(_)
TrimEnd(cs) ==
  IF cs # <<>> /\ cs[Len(cs)] \in Whitespace
  THEN TrimEnd(SubSeq(cs, 1, Len(cs) - 1)) ELSE cs

\* text.trim()
Trim(cs) == TrimEnd(TrimStart(cs))

TextEmptyResult ==
  [riskLevel |-> "Low", score |-> 0, explanation |-> Str("Please enter a message."),
   reasons |-> Arr(<<>>), advice |-> Arr(<<>>)]

TextFailedResult ==
  [riskLevel |-> "Low", score |-> 0, explanation |-> Str("Analysis failed."),
   reasons |-> Arr(<<>>), advice |-> Arr(<<>>)]

\* score > 70 ? 'High' : (score > 35 ? 'Medium' : 'Low')
RiskLevelAI(score) == IF score > 70 THEN "High" ELSE IF score > 35 THEN "Medium" ELSE "Low"

\* the try block of analyzeText after the await, and its catch
TextAfterAwait(resp) ==
  IF resp.kind = "rejected" THEN At("catch", TextFailedResult)
  ELSE LET parsed == JSONparse(TextOrEmptyObject(resp.text)) IN
       IF parsed.threw \/ ~CanRead(parsed.value) THEN At("catch", TextFailedResult)
       ELSE LET aiResult == parsed.value
                finalScore == OrElse(Get(aiResult, "score"), Num(0)).n
            IN At("try",
                  [riskLevel |-> RiskLevelAI(finalScore),
                   score |-> MathMin100(finalScore),
                   explanation |-> Get(aiResult, "explanation"),
                   reasons |-> Get(aiResult, "reasons"),
                   advice |-> Get(aiResult, "advice")])

-----------------------------------------------------------------------------
(* analyzeLink *)

\* the catch of analyzeText copied into analyzeLink unchanged
LinkFailedAsText == TextFailedResult

LinkFailedResult ==
  [riskLevel |-> "Low", score |-> 0, explanation |-> Str("Link analysis failed."),
   reasons |-> Arr(<<>>), advice |-> Arr(<<>>)]

\* `Domain audit complete for ${url}.`
DomainAuditExplanation(url) ==
  [t |-> "string", s |-> "Domain audit complete for ${url}.", url |-> url]

\* the try block of analyzeLink after the await, and its catch
LinkAfterAwait(url, resp) ==
  IF resp.kind = "rejected" THEN At("catch", LinkFailedResult)
  ELSE LET parsed == JSONparse(TextOrEmptyObject(resp.text)) IN
       IF parsed.threw \/ ~CanRead(parsed.value) THEN At("catch", LinkFailedResult)
       ELSE LET aiResult == parsed.value
                score == OrElse(Get(aiResult, "score"), Num(0)).n
            IN At("try",
                  [riskLevel |-> RiskLevelAI(score),
                   score |-> score,
                   explanation |-> DomainAuditExplanation(url),
                   reasons |-> Get(aiResult, "reasons"),
                   advice |-> Arr(<<"Check for subtle misspellings in the URL.">>)])

-----------------------------------------------------------------------------
(* PLATFORM_TEMPLATES *)

\* aspectRatios of each entry, a ratio n/d written <<n, d>> (19.5/9 = 39/18)
PLATFORM_TEMPLATES ==
  [x \in {"Google Pay", "PhonePe", "Paytm", "PayPal"} |->
     CASE x = "Google Pay" -> [aspectRatios |-> {<<39, 18>>, <<20, 9>>, <<16, 9>>}]
       [] x = "PhonePe" -> [aspectRatios |-> {<<39, 18>>, <<20, 9>>}]
       [] x = "Paytm" -> [aspectRatios |-> {<<39, 18>>, <<20, 9>>, <<18, 9>>}]
       [] x = "PayPal" -> [aspectRatios |-> {<<16, 9>>, <<39, 18>>}]]

\* names every object literal inherits from Object.prototype
ObjectPrototypeKeys ==
  {"constructor", "toString", "valueOf", "hasOwnProperty", "isPrototypeOf",
   "propertyIsEnumerable", "toLocaleString", "__proto__"}

\* PLATFORM_TEMPLATES[platform]: an entry, an inherited member, or undefined
TemplateLookup(platform) ==
  IF platform \in DOMAIN PLATFORM_TEMPLATES
  THEN [t |-> "object", own |-> TRUE, aspectRatios |-> PLATFORM_TEMPLATES[platform].aspectRatios]
  ELSE IF platform \in ObjectPrototypeKeys
       THEN [t |-> "object", own |-> FALSE, aspectRatios |-> {}]
       ELSE Undefined

-----------------------------------------------------------------------------
(* analyzeForensics: 1. Initial Metadata Audit, 2. Structural Aspect Ratio  *)
(* Audit.  A stage maps the locals [threw, score, reasons] to the locals    *)
(* after it.                                                               *)

Letters ==
  [c \in {"A","B","C","D","E","F","G","H","I","J","K","L","M",
          "N","O","P","Q","R","S","T","U","V","W","X","Y","Z"} |->
     CASE c = "A" -> "a" [] c = "B" -> "b" [] c = "C" -> "c" [] c = "D" -> "d"
       [] c = "E" -> "e" [] c = "F" -> "f" [] c = "G" -> "g" [] c = "H" -> "h"
       [] c = "I" -> "i" [] c = "J" -> "j" [] c = "K" -> "k" [] c = "L" -> "l"
       [] c = "M" -> "m" [] c = "N" -> "n" [] c = "O" -> "o" [] c = "P" -> "p"
       [] c = "Q" -> "q" [] c = "R" -> "r" [] c = "S" -> "s" [] c = "T" -> "t"
       [] c = "U" -> "u" [] c = "V" -> "v" [] c = "W" -> "w" [] c = "X" -> "x"
       [] c = "Y" -> "y" [] c = "Z" -> "z"]

\* the i flag: letters compare by their lower-case form
FoldCase(cs) == [i \in 1..Len(cs) |-> IF cs[i] \in DOMAIN Letters THEN Letters[cs[i]] ELSE cs[i]]

\* cs has sub as a contiguous run
Contains(cs, sub) ==
  \E i \in 1..(Len(cs) - Len(sub) + 1) : SubSeq(cs, i, i + Len(sub) - 1) = sub

\* the alternatives of /photoshop|canva|picsart|snapseed|editor|paint|express/i
manipulationTools ==
  { <<"p","h","o","t","o","s","h","o","p">>, <<"c","a","n","v","a">>,
    <<"p","i","c","s","a","r","t">>, <<"s","n","a","p","s","e","e","d">>,
    <<"e","d","i","t","o","r">>, <<"p","a","i","n","t">>,
    <<"e","x","p","r","e","s","s">> }

\* manipulationTools.test(metadata.software)
ManipulationToolsTest(software) ==
  \E tool \in manipulationTools : Contains(FoldCase(software.chars), tool)

\* a reason string: fixed text plus the parts interpolated into it
Reason(text) == [text |-> text, sw |-> <<>>, gps |-> <<>>, platform |-> ""]

ModificationReason(software) ==
  [Reason("Modification Signature: File processed via ${metadata.software}.")
     EXCEPT !.sw = software.chars]

EpochReason ==
  Reason("Epoch Discrepancy: Metadata suggests creation date was altered post-capture.")

InconsistentReason ==
  Reason("Inconsistent Metadata: File claims to be a screenshot but contains camera lens data.")

\* toFixed(2) of a coordinate held in thousandths of a degree: the nearest
\* hundredth (no coordinate of the model lies half-way between two)
ToFixed2(v) ==
  IF v.milli >= 0 THEN (v.milli + 5) \div 10 ELSE -((5 - v.milli) \div 10)

GeolocationReason(lat, lon) ==
  [Reason("Geolocation Marker Found: ${lat.toFixed(2)}, ${lon.toFixed(2)}")
     EXCEPT !.gps = <<ToFixed2(lat), ToFixed2(lon)>>]

GeometricReason(platform) ==
  [Reason("Geometric Mismatch: Screenshot dimensions do not match the ${platform} standard.")
     EXCEPT !.platform = platform]

\* let score = 0; const reasons = []; const anomalies = []; let layoutCheck = 'N/A'
Locals0 ==
  [threw |-> FALSE, score |-> 0, reasons |-> <<>>, anomalies |-> <<>>, layoutCheck |-> "N/A"]

Add(l, points, reason) ==
  [l EXCEPT !.score = @ + points, !.reasons = Append(@, reason)]

AuditSoftware(l, metadata) ==
  LET software == Get(metadata, "software") IN
  IF Truthy(software) /\ ManipulationToolsTest(software)
  THEN Add(l, 40, ModificationReason(software)) ELSE l

AuditTimestamp(l, metadata) ==
  IF Truthy(Get(metadata, "isAlteredTimestamp")) THEN Add(l, 30, EpochReason) ELSE l

AuditExif(l, metadata) ==
  IF /\ Truthy(Get(metadata, "hasExif"))
     /\ Truthy(Get(metadata, "isScreenshot"))
     /\ (Truthy(Get(metadata, "make")) \/ Truthy(Get(metadata, "model")))
  THEN Add(l, 15, InconsistentReason) ELSE l

\* gpsLongitude.toFixed throws a TypeError when gpsLongitude is undefined
AuditGps(l, metadata) ==
  LET lat == Get(metadata, "gpsLatitude")
      lon == Get(metadata, "gpsLongitude")
  IN IF lat.t # "undefined"
     THEN IF lat.t = "number" /\ lon.t = "number"
          THEN Add(l, 0, GeolocationReason(lat, lon))
          ELSE [l EXCEPT !.threw = TRUE]
     ELSE l

MetadataAudit(l, metadata) ==
  IF Truthy(metadata)
  THEN AuditGps(AuditExif(AuditTimestamp(AuditSoftware(l, metadata), metadata), metadata), metadata)
  ELSE l

Abs(x) == IF x < 0 THEN -x ELSE x

\* Math.abs(height / width - r) < 0.1 for r = n/d and width > 0.  The exact
\* comparison; the double one agrees with it on every size of ImageSizes.
NearRatio(imageSize, r) ==
  10 * Abs(imageSize.height * r[2] - r[1] * imageSize.width) < imageSize.width * r[2]

\* every accepted ratio required to match instead of some
isStandardEvery(template, imageSize) ==
  \A r \in template.aspectRatios : NearRatio(imageSize, r)

\* template.aspectRatios.some((r) => Math.abs(ratio - r) < 0.1)
isStandard(template, imageSize) ==
  \E r \in template.aspectRatios : NearRatio(imageSize, r)

\* template.aspectRatios.some throws a TypeError on an inherited member,
\* which has no aspectRatios
AspectRatioAudit(l, imageSize, platform) ==
  LET template == TemplateLookup(platform) IN
  IF l.threw \/ ~Truthy(template) THEN l
  ELSE IF ~template.own THEN [l EXCEPT !.threw = TRUE]
       ELSE IF ~isStandard(template, imageSize)
            THEN Add(l, 20, GeometricReason(platform)) ELSE l

\* the locals when analyzeForensics reaches `if (base64Image)`
HeuristicStage(a) ==
  AspectRatioAudit(MetadataAudit(Locals0, a.metadata), a.imageSize, a.platform)

-----------------------------------------------------------------------------
(* analyzeForensics: 3. AI Vision Audit, and the heuristic fallback. *)

\* score > 65 ? 'High' : (score > 30 ? 'Medium' : 'Low')
RiskLevelFallback(score) ==
  IF score > 65 THEN "High" ELSE IF score > 30 THEN "Medium" ELSE "Low"

\* score > 60 ? 'Failed' : (score > 25 ? 'Suspicious' : 'Passed')
LayoutFallback(score) ==
  IF score > 60 THEN "Failed" ELSE IF score > 25 THEN "Suspicious" ELSE "Passed"

\* from `if (layoutCheck === 'N/A')` to the final return
Fallback(l) ==
  LET layoutCheck == IF l.layoutCheck = "N/A" THEN LayoutFallback(l.score) ELSE l.layoutCheck
  IN [locals |-> [l EXCEPT !.layoutCheck = layoutCheck],
      path |-> "fallback",
      result |->
        [riskLevel |-> RiskLevelFallback(l.score),
         score |-> MathMin100(l.score),
         explanation |-> Str("Basic heuristic forensic audit complete."),
         reasons |-> Arr(SetSpread(l.reasons)),
         advice |-> Arr(<<"Verify the transaction manually.", "Check for editing artifacts.">>),
         anomalies |-> l.anomalies,
         layoutCheck |-> layoutCheck]]

\* the two signals added up instead of the larger one taken
MergeScoreSum(score, aiResult) == score + OrElse(Get(aiResult, "aiScore"), Num(0)).n

\* score = Math.max(score, aiResult.aiScore || 0)
MergeScore(score, aiResult) == MathMax(score, OrElse(Get(aiResult, "aiScore"), Num(0)))

\* layoutCheck = (aiResult.layoutStatus as LayoutStatus) || 'Suspicious'
MergeLayout(aiResult) == OrElse(Get(aiResult, "layoutStatus"), Str("Suspicious")).s

\* the return inside the try block
VisionResult(l, aiResult) ==
  [locals |-> l,
   path |-> "vision",
   result |->
     [riskLevel |-> RiskLevelAI(l.score),
      score |-> MathMin100(l.score),
      explanation |-> OrElse(Get(aiResult, "aiExplanation"), Str("Forensic vision audit complete.")),
      reasons |-> Arr(SetSpread(l.reasons)),
      advice |-> Arr(<<"Cross-verify this Transaction ID in your banking app.",
                       "Check for blurred edges around the currency symbol.",
                       "Check if the fonts are consistent across the entire screen.">>),
      anomalies |-> l.anomalies,
      layoutCheck |-> l.layoutCheck]]

\* the try block after the await, statement by statement: a throw leaves the
\* locals as the statements before it set them and falls to the fallback
ForensicsAfterAwait(l, resp) ==
  IF resp.kind = "rejected" THEN Fallback(l)
  ELSE LET parsed == JSONparse(TextOrEmptyObject(resp.text)) IN
  IF parsed.threw \/ ~CanRead(parsed.value) THEN Fallback(l)
  ELSE LET aiResult == parsed.value
           l1 == [l EXCEPT !.score = MergeScore(l.score, aiResult)]
           aiReasons == OrElse(Get(aiResult, "aiReasons"), Arr(<<>>))
       IN
  IF ~Iterable(aiReasons) THEN Fallback(l1)
  ELSE LET l2 == [l1 EXCEPT !.reasons = @ \o aiReasons.items]
           detectedAnomalies == OrElse(Get(aiResult, "detectedAnomalies"), Arr(<<>>))
       IN
  IF ~Iterable(detectedAnomalies) THEN Fallback(l2)
  ELSE LET l3 == [l2 EXCEPT !.anomalies = @ \o detectedAnomalies.items]
           l4 == [l3 EXCEPT !.layoutCheck = MergeLayout(aiResult)]
       IN VisionResult(l4, aiResult)

-----------------------------------------------------------------------------
(* Inputs of the model. *)

Texts == { <<>>, <<" ", "\t">>, <<" ", "O", "T", "P", " ">> }

Urls == { "http://paypa1.example/login", "https://bank.example" }

PhotoshopCC ==
  CharStr(<<"A","d","o","b","e"," ","P","h","o","t","o","s","h","o","p"," ","C","C">>)
CanvaUpper == CharStr(<<"C","A","N","V","A">>)
CameraApp == CharStr(<<"C","a","m","e","r","a">>)

Softwares == { Undefined, PhotoshopCC, CanvaUpper, CameraApp }

\* <<hasExif, isScreenshot, make, model>>
ExifSignals ==
  { <<Undefined, Undefined, Undefined, Undefined>>,
    <<Bool(TRUE), Bool(TRUE), Undefined, Undefined>>,
    <<Bool(TRUE), Bool(TRUE), Str("Canon"), Undefined>>,
    <<Bool(TRUE), Bool(TRUE), Undefined, Str("EOS 80D")>>,
    <<Bool(FALSE), Bool(TRUE), Str("Canon"), Undefined>> }

Coordinate(milli) == [t |-> "number", milli |-> milli]

\* <<gpsLatitude, gpsLongitude>>
GpsSignals ==
  { <<Undefined, Undefined>>,
    <<Coordinate(12971), Coordinate(-77594)>>,
    <<Coordinate(12971), Undefined>> }

Metadatas ==
  {Undefined} \cup
  { Obj([software |-> s, isAlteredTimestamp |-> a,
         hasExif |-> e[1], isScreenshot |-> e[2], make |-> e[3], model |-> e[4],
         gpsLatitude |-> g[1], gpsLongitude |-> g[2]]) :
      s \in Softwares, a \in {Undefined, Bool(TRUE)}, e \in ExifSignals, g \in GpsSignals }

ImageSizes == { [width |-> 1080, height |-> 2340], [width |-> 1080, height |-> 1920] }

Platforms == { "General", "Google Pay", "PhonePe", "Paytm", "constructor" }

Images == { Undefined, Str("data:image/jpeg;base64,AAAA") }

SeqsUpTo(S, n) == UNION { [1..k -> S] : k \in 0..n }

AiReasons ==
  { Reason("Font weights differ from the platform's system font."), EpochReason }

ReasonLists == {Undefined} \cup { Arr(r) : r \in SeqsUpTo(AiReasons, MaxReasons) }

Scores == { Undefined, Num(-5), Num(50), Num(90), Num(150) }

TextDocs ==
  { Obj([score |-> s, explanation |-> e, reasons |-> r, advice |-> a]) :
      s \in Scores, e \in {Undefined, Str("Likely phishing.")}, r \in ReasonLists,
      a \in {Undefined, Arr(<<"Do not reply.">>)} }

LinkDocs == { Obj([score |-> s, reasons |-> r]) : s \in Scores, r \in ReasonLists }

Anomaly == [x |-> 10, y |-> 20, width |-> 30, height |-> 40, label |-> "Misaligned amount", severity |-> "High"]

LayoutStatuses ==
  { Undefined, Str("Passed"), Str("Failed"), Str("Suspicious"), Str("N/A"), Str("Tampered") }

\* replies of the deep-vision call: every score with every reasons and
\* anomalies value, and every layoutStatus with every explanation
VisionDocs ==
  { Obj([aiScore |-> s, aiReasons |-> r, aiExplanation |-> Str("Fonts look forged."),
         layoutStatus |-> Str("Passed"), detectedAnomalies |-> d]) :
      s \in Scores, r \in ReasonLists \cup {Num(5)},
      d \in {Undefined, Arr(<<Anomaly>>), Num(5)} }
  \cup
  { Obj([aiScore |-> s, aiReasons |-> Undefined, aiExplanation |-> e,
         layoutStatus |-> ls, detectedAnomalies |-> Undefined]) :
      s \in {Undefined, Num(90)}, e \in {Undefined, Str(""), Str("Fonts look forged.")},
      ls \in LayoutStatuses }

Docs(e) ==
  CASE e = "analyzeText" -> TextDocs
    [] e = "analyzeLink" -> LinkDocs
    [] e = "analyzeForensics" -> VisionDocs

\* what generateContent settles to
Responses(e) ==
  {Rejected, Fulfilled(NoText), Fulfilled(Garbage), Fulfilled(Json(Null)),
   Fulfilled(Json(EmptyObject))}
  \cup { Fulfilled(Json(d)) : d \in Docs(e) }

-----------------------------------------------------------------------------
(* The calls as a state machine: one call at a time, suspended at its await. *)

NoArgs == [none |-> TRUE]

Init ==
  /\ pc = "idle"
  /\ entry = "none"
  /\ args = NoArgs
  /\ locals = Locals0
  /\ response = Pending
  /\ outcome = NoOutcome

\* analyzeText up to its await, or the early return on a blank message
CallAnalyzeText ==
  /\ pc = "idle"
  /\ \E text \in Texts :
       /\ args' = [text |-> text]
       /\ IF Trim(text) = <<>>
          THEN pc' = "done" /\ outcome' = Returned(At("blank", TextEmptyResult))
          ELSE pc' = "awaiting" /\ outcome' = NoOutcome
  /\ entry' = "analyzeText"
  /\ locals' = Locals0
  /\ response' = Pending

\* analyzeLink up to its await
CallAnalyzeLink ==
  /\ pc = "idle"
  /\ \E url \in Urls : args' = [url |-> url]
  /\ entry' = "analyzeLink"
  /\ pc' = "awaiting"
  /\ locals' = Locals0
  /\ response' = Pending
  /\ outcome' = NoOutcome

\* analyzeForensics up to its await: the two audits, then either the call of
\* the model or, without an image, the fallback
CallAnalyzeForensics ==
  /\ pc = "idle"
  /\ \E metadata \in Metadatas, imageSize \in ImageSizes, platform \in Platforms,
        base64Image \in Images :
       LET a == [metadata |-> metadata, imageSize |-> imageSize, platform |-> platform,
                 base64Image |-> base64Image]
           l == HeuristicStage(a)
       IN /\ args' = a
          /\ IF l.threw
             THEN pc' = "done" /\ locals' = l /\ outcome' = Threw
             ELSE IF Truthy(base64Image)
                  THEN pc' = "awaiting" /\ locals' = l /\ outcome' = NoOutcome
                  ELSE /\ pc' = "done"
                       /\ locals' = Fallback(l).locals
                       /\ outcome' = Returned(Fallback(l))
  /\ entry' = "analyzeForensics"
  /\ response' = Pending

\* the promise of generateContent settles
GatewaySettles ==
  /\ pc = "awaiting"
  /\ response' \in Responses(entry)
  /\ pc' = "settled"
  /\ UNCHANGED <<entry, args, locals, outcome>>

ResumeAnalyzeText ==
  /\ pc = "settled" /\ entry = "analyzeText"
  /\ outcome' = Returned(TextAfterAwait(response))
  /\ pc' = "done"
  /\ UNCHANGED <<entry, args, locals, response>>

ResumeAnalyzeLink ==
  /\ pc = "settled" /\ entry = "analyzeLink"
  /\ outcome' = Returned(LinkAfterAwait(args.url, response))
  /\ pc' = "done"
  /\ UNCHANGED <<entry, args, locals, response>>

ResumeAnalyzeForensics ==
  /\ pc = "settled" /\ entry = "analyzeForensics"
  /\ LET r == ForensicsAfterAwait(locals, response)
     IN locals' = r.locals /\ outcome' = Returned(r)
  /\ pc' = "done"
  /\ UNCHANGED <<entry, args, response>>

\* the caller takes the result; the next call starts from fresh locals
Release ==
  /\ pc = "done"
  /\ pc' = "idle"
  /\ entry' = "none"
  /\ args' = NoArgs
  /\ locals' = Locals0
  /\ response' = Pending
  /\ outcome' = NoOutcome

Next ==
  \/ CallAnalyzeText
  \/ CallAnalyzeLink
  \/ CallAnalyzeForensics
  \/ GatewaySettles
  \/ ResumeAnalyzeText
  \/ ResumeAnalyzeLink
  \/ ResumeAnalyzeForensics
  \/ Release

Spec == Init /\ [][Next]_vars

-----------------------------------------------------------------------------
(* Properties. *)

ReturnedFrom(e) == pc = "done" /\ entry = e /\ outcome.kind = "returned"

\* the reply the call read: JSON.parse(response.text || '{}')
Reply == JSONparse(TextOrEmptyObject(response.text)).value

\* a number field of the reply, 0 when the reply lacks it
ReplyNumber(name) ==
  LET v == Get(Reply, name) IN IF v.t = "number" THEN v.n ELSE 0

NoDuplicates(seq) == \A i, j \in 1..Len(seq) : seq[i] = seq[j] => i = j

\* C1: every returned ScanResult has 0 <= score <= 100, whatever integer
\* score the gateway replied with and whichever heuristic rules fired.
C1_ScoreInRange ==
  outcome.kind = "returned" => (outcome.value.score >= 0 /\ outcome.value.score <= 100)

\* C2: a result of the heuristic-only fallback of analyzeForensics has the
\* score min(100, heuristic score) and exactly the deduplicated heuristic
\* reasons, wherever inside the try block the deep-vision step failed.
C2_FallbackIgnoresReply ==
  (ReturnedFrom("analyzeForensics") /\ outcome.path = "fallback") =>
    /\ outcome.value.score = Min(100, HeuristicStage(args).score)
    /\ outcome.value.reasons = Arr(SetSpread(HeuristicStage(args).reasons))

\* C3: when the deep-vision step succeeds the returned score is
\* min(100, max(heuristicScore, aiScore)), aiScore being 0 when absent; it is
\* not their sum and is never below min(100, heuristicScore).
C3_VisionScoreIsMax ==
  (ReturnedFrom("analyzeForensics") /\ outcome.path = "vision") =>
    LET h == HeuristicStage(args).score
        ai == ReplyNumber("aiScore")
    IN /\ outcome.value.score = Min(100, IF h >= ai THEN h ELSE ai)
       /\ outcome.value.score >= Min(100, h)
       /\ (h > 0 /\ ai > 0) => outcome.value.score < h + ai

C3_Witness ==
  /\ ReturnedFrom("analyzeForensics") /\ outcome.path = "vision"
  /\ HeuristicStage(args).score = 60
  /\ ReplyNumber("aiScore") = 50
  /\ outcome.value.score = 60

\* the heuristic score is in locals.score from the end of the two audits
\* until the try block merges the reply into it
HeuristicScoreVisible ==
  /\ entry = "analyzeForensics"
  /\ ~locals.threw
  /\ \/ pc \in {"awaiting", "settled"}
     \/ pc = "done" /\ ~Truthy(args.base64Image)

C4_EditingTool(a) ==
  Truthy(a.metadata) /\ Get(a.metadata, "software") \in {PhotoshopCC, CanvaUpper}

C4_AlteredTimestamp(a) ==
  Truthy(a.metadata) /\ Get(a.metadata, "isAlteredTimestamp") = Bool(TRUE)

C4_ExifContradiction(a) ==
  /\ Truthy(a.metadata)
  /\ Get(a.metadata, "hasExif") = Bool(TRUE)
  /\ Get(a.metadata, "isScreenshot") = Bool(TRUE)
  /\ (Get(a.metadata, "make") # Undefined \/ Get(a.metadata, "model") # Undefined)

\* no accepted ratio n/d of the entry has |height/width - n/d| < 1/10
C4_GeometryMismatch(a) ==
  /\ a.platform \in {"Google Pay", "PhonePe", "Paytm", "PayPal"}
  /\ \A r \in PLATFORM_TEMPLATES[a.platform].aspectRatios :
       LET diff == a.imageSize.height * r[2] - r[1] * a.imageSize.width
       IN 10 * diff >= a.imageSize.width * r[2] \/ 10 * diff <= -(a.imageSize.width * r[2])

C4_Points(a) ==
  (IF C4_EditingTool(a) THEN 40 ELSE 0) + (IF C4_AlteredTimestamp(a) THEN 30 ELSE 0)
  + (IF C4_ExifContradiction(a) THEN 15 ELSE 0) + (IF C4_GeometryMismatch(a) THEN 20 ELSE 0)

C4_Rules ==
  HeuristicScoreVisible =>
    /\ locals.score = C4_Points(args)
    /\ C4_GeometryMismatch(args) <=> (GeometricReason(args.platform) \in Range(locals.reasons))

\* the score of a call with no metadata, this platform and a 1080 wide image
C4_Example(platform, height, points) ==
  ( /\ HeuristicScoreVisible
    /\ args.metadata = Undefined
    /\ args.platform = platform
    /\ args.imageSize = [width |-> 1080, height |-> height] ) => locals.score = points

\* C4 as amended: the heuristic score is the sum of the points of the rules
\* whose condition holds (40 editing tool, 30 altered timestamp, 15 EXIF
\* contradiction, 20 geometry mismatch, strictly less than 0.1 being a
\* match); GPS adds 0, a name that is no registry entry adds 0 and no
\* geometric reason; Google Pay 1080x2340 adds 0, Google Pay 1080x1920 adds 0
\* as well (16/9 is an accepted Google Pay ratio), PhonePe 1080x1920 adds 20.
C4_HeuristicScoreIsRuleSum ==
  /\ C4_Rules
  /\ C4_Example("Google Pay", 2340, 0)
  /\ C4_Example("Google Pay", 1920, 0)
  /\ C4_Example("PhonePe", 1920, 20)
  /\ C4_Example("General", 1920, 0)

C4_Witness ==
  /\ HeuristicScoreVisible
  /\ args.platform = "PhonePe" /\ args.imageSize.height = 1920
  /\ C4_EditingTool(args) /\ C4_AlteredTimestamp(args) /\ C4_ExifContradiction(args)
  /\ Get(args.metadata, "gpsLatitude") # Undefined
  /\ locals.score = 105

\* C4 as claimed: as above, but Google Pay 1080x1920 adds 20.
C4_Original ==
  /\ C4_Rules
  /\ C4_Example("Google Pay", 2340, 0)
  /\ C4_Example("Google Pay", 1920, 20)

RiskTable(high, medium, score) ==
  IF score > high THEN "High" ELSE IF score > medium THEN "Medium" ELSE "Low"

\* C5: on a non-degraded path riskLevel is the mode's threshold table of the
\* returned score (70/35 for text, link and AI-assisted forensic, 65/30 for
\* the forensic fallback); the fallback layoutCheck is the 60/25 table; a
\* fallback with heuristic score 45 gives Medium and Suspicious.
C5_RiskLevelFromTable ==
  LET r == outcome.value IN
  /\ (outcome.kind = "returned" /\ outcome.path \in {"try", "vision"}) =>
       r.riskLevel = RiskTable(70, 35, r.score)
  /\ (outcome.kind = "returned" /\ outcome.path = "fallback") =>
       /\ r.riskLevel = RiskTable(65, 30, r.score)
       /\ r.layoutCheck = (IF r.score > 60 THEN "Failed"
                           ELSE IF r.score > 25 THEN "Suspicious" ELSE "Passed")
       /\ HeuristicStage(args).score = 45 =>
            (r.riskLevel = "Medium" /\ r.layoutCheck = "Suspicious")

\* C6: no call of the three entry points ends by throwing or rejecting.
C6_NeverThrows == outcome.kind # "threw"

DegradedResult(explanation) ==
  [riskLevel |-> "Low", score |-> 0, explanation |-> Str(explanation),
   reasons |-> Arr(<<>>), advice |-> Arr(<<>>)]

GatewayFailed(e) == ReturnedFrom(e) /\ response.kind = "rejected"

\* C7 as amended: when the gateway call rejects, analyzeText returns Low, 0,
\* "Analysis failed.", no reasons, no advice, and analyzeLink returns the
\* same but for its explanation, which is "Link analysis failed.".
C7_DegradedOnReject ==
  /\ GatewayFailed("analyzeText") => outcome.value = DegradedResult("Analysis failed.")
  /\ GatewayFailed("analyzeLink") => outcome.value = DegradedResult("Link analysis failed.")

C7_Witness ==
  GatewayFailed("analyzeLink") /\ outcome.value.explanation = Str("Link analysis failed.")

\* C7 as claimed: both modes return the same result, explanation
\* "Analysis failed.".
C7_Original ==
  (GatewayFailed("analyzeText") \/ GatewayFailed("analyzeLink")) =>
    outcome.value = DegradedResult("Analysis failed.")

\* C8: the reasons of every returned ScanResult are a list without
\* duplicates in order of first occurrence; in forensic mode the heuristic
\* reasons in rule order, then the gateway's.
C8_ReasonsDistinct ==
  (outcome.kind = "returned" /\ outcome.value.reasons.t = "array") =>
    /\ NoDuplicates(outcome.value.reasons.items)
    /\ (entry = "analyzeForensics" /\ outcome.path = "vision") =>
         LET h == HeuristicStage(args).reasons
             items == outcome.value.reasons.items
         IN Len(items) >= Len(h) /\ SubSeq(items, 1, Len(h)) = h

Verdicts == {"Passed", "Failed", "Suspicious"}

\* C9: layoutCheck of every analyzeForensics result is Passed, Failed or
\* Suspicious; after a successful deep-vision pass it is the reply's
\* layoutStatus when that is one of the three, and Suspicious otherwise.
C9_LayoutIsVerdict ==
  ReturnedFrom("analyzeForensics") =>
    /\ outcome.value.layoutCheck \in Verdicts
    /\ outcome.path = "vision" =>
         LET ls == Get(Reply, "layoutStatus")
         IN outcome.value.layoutCheck =
              (IF ls.t = "string" /\ ls.s \in Verdicts THEN ls.s ELSE "Suspicious")

EmptyValues(r) ==
  r.score = 0 /\ r.reasons = Arr(<<>>) /\ r.explanation = Str("")

\* C10: a reply that is no valid JSON gives the ScanResult the reply {}
\* gives, and a field the reply omits appears as its empty value (score 0,
\* reasons the empty list, explanation the empty string).
C10_MalformedAsEmptyObject ==
  /\ (ReturnedFrom("analyzeText") /\ response = Fulfilled(Garbage)) =>
       outcome.value = TextAfterAwait(Fulfilled(Json(EmptyObject))).result
  /\ (ReturnedFrom("analyzeLink") /\ response = Fulfilled(Garbage)) =>
       outcome.value = LinkAfterAwait(args.url, Fulfilled(Json(EmptyObject))).result
  /\ (ReturnedFrom("analyzeForensics") /\ response = Fulfilled(Garbage)) =>
       outcome.value =
         ForensicsAfterAwait(HeuristicStage(args), Fulfilled(Json(EmptyObject))).result
  /\ (ReturnedFrom("analyzeText") /\ response = Fulfilled(Json(EmptyObject))) =>
       EmptyValues(outcome.value)

====
